---- MODULE Spec2Model ----
(***************************************************************************)
(* Model of teamBuilder.py (FantasyTeamBuilder): the Player statistics     *)
(* (Player.calculate_player_stats, Player.predict_player_next_points) and  *)
(* the Team roster operations (get_players_by_position,                    *)
(* predict_team_next_points, set_optimal_starting_roster,                  *)
(* set_random_starting_roster).                                            *)
(*                                                                         *)
(* Numbers that the program keeps as floats rounded to 2 decimals are      *)
(* integers counting hundredths (1.25 is 125).                             *)
(***************************************************************************)
EXTENDS Integers, Sequences, FiniteSets

VARIABLES
    player_list,      \* Team.player_list: sequence of players, ingestion order
    starting_roster,  \* Team.starting_roster: position -> sequence of players
    last_call,        \* which roster operation returned last ("none" at first)
    query,            \* last get_players_by_position call: its argument and result
    row,              \* the data row handed to Player(d)
    player            \* the outcome of Player(d): the stats, or the exception

vars == <<player_list, starting_roster, last_call, query, row, player>>

----------------------------------------------------------------------------
(* Bounds of the model *)

\* predicted points of a team player range over 0..MaxPred (hundredths)
MaxPred == 1
\* a Defense / Goalie pool holds up to MaxSpare players more than its slot takes
MaxSpare == 1
\* the teams of the registry lookups hold up to MaxPlayers players
MaxPlayers == 3
\* games counts of a data row range over 0..MaxGames
MaxGames == 3
\* points counts of a data row range over 0..MaxPoints
MaxPoints == 2

(* Program constants *)

\* combinations(RW, 2): two players per forward slot
PairSize == 2
\* defense[0:4]
DefenseSlots == 4
\* goalies[0:2]
GoalieSlots == 2

Positions == {"C", "L", "R", "D", "G"}
\* "only forwards C/L/R will have more than 1" position
ForwardPositions == {"C", "L", "R"}
\* a missing position_2 is read from the sheet as nan
NoPosition == "nan"

----------------------------------------------------------------------------
(* Helpers on sequences *)

Min(a, b) == IF a < b THEN a ELSE b

\* Python's s[0:n]
Slice(s, n) == SubSeq(s, 1, Min(n, Len(s)))

SeqsUpTo(S, n) == UNION {[1..k -> S] : k \in 0..n}

Range(s) == {s[i] : i \in 1..Len(s)}

----------------------------------------------------------------------------
(* Player accessors *)

\* Player.get_name
get_name(p) == p.name

\* Player.get_prediction: stats['predicted']['pts']
get_prediction(p) == p.pts

----------------------------------------------------------------------------
(* Team.get_players_by_position: the loop over player_list, appending the  *)
(* players whose position list holds the position asked for.               *)

\* (variant: only position_1 is compared)
PlaysPosition_FirstCellOnly(p, position) == p.position[1] = position

\* `position in p.position`, p.position being [position_1, position_2]
PlaysPosition(p, position) ==
    \E k \in 1..Len(p.position) : p.position[k] = position

RECURSIVE players_by_position_from(_, _, _)
players_by_position_from(list, position, i) ==
    IF i > Len(list) THEN <<>>
    ELSE (IF PlaysPosition(list[i], position) THEN <<list[i]>> ELSE <<>>)
         \o players_by_position_from(list, position, i + 1)

get_players_by_position(list, position) ==
    players_by_position_from(list, position, 1)

----------------------------------------------------------------------------
(* Team.predict_team_next_points(sub_list): the sum of the predictions,    *)
(* rounded to 2 decimals. The predictions are 2-decimal values, so the     *)
(* rounded float sum is the exact sum of the hundredths.                   *)

RECURSIVE predict_team_next_points(_)
predict_team_next_points(sub_list) ==
    IF sub_list = <<>> THEN 0
    ELSE get_prediction(Head(sub_list)) + predict_team_next_points(Tail(sub_list))

----------------------------------------------------------------------------
(* itertools.combinations(pool, 2): the pairs (pool[i], pool[j]), i < j,   *)
(* in lexicographic order of (i, j).                                       *)

RECURSIVE combinations_from(_, _, _)
combinations_from(pool, i, j) ==
    IF i >= Len(pool) THEN <<>>
    ELSE IF j > Len(pool) THEN combinations_from(pool, i + 1, i + 2)
    ELSE <<<<pool[i], pool[j]>>>> \o combinations_from(pool, i, j + 1)

combinations(pool) == combinations_from(pool, 1, PairSize)

\* (variant: a pool too short for a pair is skipped, its slot left empty,
\* and the other positions are still searched)
ForwardTriples_ShortPoolSkipped(RW, LW, C) ==
    LET PairsOrNone(pool) ==
            IF Len(pool) < PairSize THEN <<<<>>>> ELSE combinations(pool)
        Rp == PairsOrNone(RW)
        Lp == PairsOrNone(LW)
        Cp == PairsOrNone(C)
        nL == Len(Lp)
        nC == Len(Cp)
    IN [k \in 1..(Len(Rp) * nL * nC) |->
          [R |-> Rp[((k - 1) \div (nL * nC)) + 1],
           L |-> Lp[(((k - 1) \div nC) % nL) + 1],
           C |-> Cp[((k - 1) % nC) + 1]]]

\* the nested loops `for Rpair .. for Lpair .. for Cpair`, flattened in the
\* order the loop bodies run: R pairs outer, L pairs middle, C pairs inner
ForwardTriples(RW, LW, C) ==
    LET Rp == combinations(RW)
        Lp == combinations(LW)
        Cp == combinations(C)
        nL == Len(Lp)
        nC == Len(Cp)
    IN [k \in 1..(Len(Rp) * nL * nC) |->
          [R |-> Rp[((k - 1) \div (nL * nC)) + 1],
           L |-> Lp[(((k - 1) \div nC) % nL) + 1],
           C |-> Cp[((k - 1) % nC) + 1]]]

\* concat_list = list(Rpair + Lpair + Cpair)
concat_list(t) == t.R \o t.L \o t.C

\* concat_list_names
concat_list_names(t) ==
    [k \in 1..Len(concat_list(t)) |-> get_name(concat_list(t)[k])]

\* (variant: the names are not compared)
NoRepeatedName_Unchecked(names) == Len(names) = Len(names)

\* len(np.unique(concat_list_names)) == len(concat_list_names)
NoRepeatedName(names) == Cardinality(Range(names)) = Len(names)

----------------------------------------------------------------------------
(* Team.__init__: the roster starts with every slot empty *)

EmptyRoster == [C |-> <<>>, L |-> <<>>, R |-> <<>>, D |-> <<>>, G |-> <<>>]

----------------------------------------------------------------------------
(* Team.set_optimal_starting_roster *)

\* max_fwd_sum = 0
InitialMaxFwdSum == 0

\* max_fwd_lineup = {'C': [], 'R': [], 'L': []}
InitialMaxFwdLineup == [C |-> <<>>, R |-> <<>>, L |-> <<>>]

\* (variant: the comparison is turned round)
IsNewMax_Inverted(combo_sum, max_fwd_sum) == combo_sum < max_fwd_sum

\* `if combo_sum > max_fwd_sum`
IsNewMax(combo_sum, max_fwd_sum) == combo_sum > max_fwd_sum

\* the body of the innermost loop, run over the triples from the k-th on,
\* carrying max_fwd_sum and max_fwd_lineup; the value is the final lineup
RECURSIVE optimal_scan(_, _, _, _)
optimal_scan(triples, k, max_fwd_sum, max_fwd_lineup) ==
    IF k > Len(triples) THEN max_fwd_lineup
    ELSE LET t == triples[k]
             combo_sum == predict_team_next_points(concat_list(t))
         IN IF NoRepeatedName(concat_list_names(t))
               /\ IsNewMax(combo_sum, max_fwd_sum)
            THEN optimal_scan(triples, k + 1, combo_sum,
                              [C |-> t.C, R |-> t.R, L |-> t.L])
            ELSE optimal_scan(triples, k + 1, max_fwd_sum, max_fwd_lineup)

\* the forward search of set_optimal_starting_roster
optimal_forwards(list) ==
    optimal_scan(ForwardTriples(get_players_by_position(list, "R"),
                                get_players_by_position(list, "L"),
                                get_players_by_position(list, "C")),
                 1, InitialMaxFwdSum, InitialMaxFwdLineup)

\* (variant: the slots are assigned only when the search found a lineup)
commit_max_fwd_lineup_if_found(roster, lineup) ==
    IF lineup.C = <<>> THEN roster
    ELSE [roster EXCEPT !.C = lineup.C, !.R = lineup.R, !.L = lineup.L]

\* (variant: the centre pair and the left-wing pair are assigned crosswise)
commit_max_fwd_lineup_crossed(roster, lineup) ==
    [roster EXCEPT !.C = lineup.L, !.R = lineup.R, !.L = lineup.C]

\* "Set the remaining maximum combo to the Team object's starting roster":
\* the three assignments, whatever the lineup holds
commit_max_fwd_lineup(roster, lineup) ==
    [roster EXCEPT !.C = lineup.C, !.R = lineup.R, !.L = lineup.L]

\* (variant: an unstable descending sort, equal predictions change places)
GoesBehind_Strict(x, y) == get_prediction(y) > get_prediction(x)

\* list.sort(key=lambda x: x.get_prediction(), reverse=True) is stable: an
\* element goes behind every element already placed whose prediction is
\* greater than or equal to its own
GoesBehind(x, y) == get_prediction(y) >= get_prediction(x)

RECURSIVE insert_sorted(_, _)
insert_sorted(x, sorted) ==
    IF sorted = <<>> THEN <<x>>
    ELSE IF GoesBehind(x, Head(sorted))
         THEN <<Head(sorted)>> \o insert_sorted(x, Tail(sorted))
         ELSE <<x>> \o sorted

RECURSIVE sort_by_prediction_from(_, _, _)
sort_by_prediction_from(pool, i, sorted) ==
    IF i > Len(pool) THEN sorted
    ELSE sort_by_prediction_from(pool, i + 1, insert_sorted(pool[i], sorted))

sort_by_prediction(pool) == sort_by_prediction_from(pool, 1, <<>>)

set_optimal_starting_roster(list, roster) ==
    LET fwd == commit_max_fwd_lineup(roster, optimal_forwards(list))
        defense == sort_by_prediction(get_players_by_position(list, "D"))
        goalies == sort_by_prediction(get_players_by_position(list, "G"))
    IN [fwd EXCEPT !.D = Slice(defense, DefenseSlots),
                   !.G = Slice(goalies, GoalieSlots)]

----------------------------------------------------------------------------
(* Team.set_random_starting_roster *)

\* (variant: no return after the assignment, the loops run on)
RECURSIVE random_scan_without_return(_, _, _)
random_scan_without_return(triples, k, roster) ==
    IF k > Len(triples) THEN roster
    ELSE LET t == triples[k]
         IN IF NoRepeatedName(concat_list_names(t))
            THEN random_scan_without_return(triples, k + 1,
                    [roster EXCEPT !.R = t.R, !.L = t.L, !.C = t.C])
            ELSE random_scan_without_return(triples, k + 1, roster)

\* the forward loops: the slots are assigned at the first triple with no
\* repeated name and the method returns; when the loops run out the method
\* ends with the forward slots as they were
RECURSIVE random_scan(_, _, _)
random_scan(triples, k, roster) ==
    IF k > Len(triples) THEN roster
    ELSE LET t == triples[k]
         IN IF NoRepeatedName(concat_list_names(t))
            THEN [roster EXCEPT !.R = t.R, !.L = t.L, !.C = t.C]
            ELSE random_scan(triples, k + 1, roster)

set_random_starting_roster(list, roster) ==
    LET defense == get_players_by_position(list, "D")
        goalies == get_players_by_position(list, "G")
        dg == [roster EXCEPT !.D = Slice(defense, DefenseSlots),
                             !.G = Slice(goalies, GoalieSlots)]
    IN random_scan(ForwardTriples(get_players_by_position(list, "R"),
                                  get_players_by_position(list, "L"),
                                  get_players_by_position(list, "C")),
                   1, dg)

----------------------------------------------------------------------------
(* Team.create_team: one player per data row, in the rows' order. Only the *)
(* name, the two position cells and the prediction of a team's player are  *)
(* kept here; the names are the row numbers, so they are unique.           *)

create_team(rows) ==
    [i \in 1..Len(rows) |->
        [name |-> i, position |-> rows[i].position, pts |-> rows[i].pts]]

Preds == 0..MaxPred

Single(pos) == <<pos, NoPosition>>

\* what a forward's two position cells may hold
ForwardEligibilities ==
    {Single("C"), Single("L"), Single("R"),
     <<"C", "L">>, <<"C", "R">>, <<"L", "R">>}

RowsOf(position, preds) ==
    [k \in 1..Len(preds) |-> [position |-> position, pts |-> preds[k]]]

\* no row, or one forward row of any eligibility
LeadingRows ==
    {<<>>} \cup {<<[position |-> e, pts |-> v]>> : e \in ForwardEligibilities,
                                                   v \in Preds}

\* The data sheets of the model. Forward sheets: an optional leading forward
\* of any eligibility, then up to PairSize right wings, left wings and
\* centres; defense sheets and goalie sheets: up to MaxSpare players more
\* than the slot takes. The selections of the forwards, the defense and the
\* goalies read disjoint pools.
ForwardSheet(lead, r, l, c) ==
    lead \o RowsOf(Single("R"), r) \o RowsOf(Single("L"), l)
         \o RowsOf(Single("C"), c)

DefenseSheet(d) == RowsOf(Single("D"), d)

GoalieSheet(g) == RowsOf(Single("G"), g)

NoQuery == [position |-> "none", result |-> <<>>]
NoRow == [games_7 |-> 1, points_7 |-> 0, games_total |-> 1, points_total |-> 0,
          games_this_week |-> 1]
NoPlayer == [status |-> "none"]

----------------------------------------------------------------------------
(* The roster operations on a team *)

\* Team(path)
Init ==
    /\ \/ \E lead \in LeadingRows :
             \E r, l, c \in SeqsUpTo(Preds, PairSize) :
                player_list = create_team(ForwardSheet(lead, r, l, c))
       \/ \E d \in SeqsUpTo(Preds, DefenseSlots + MaxSpare) :
             player_list = create_team(DefenseSheet(d))
       \/ \E g \in SeqsUpTo(Preds, GoalieSlots + MaxSpare) :
             player_list = create_team(GoalieSheet(g))
    /\ starting_roster = EmptyRoster
    /\ last_call = "none"
    /\ query = NoQuery
    /\ row = NoRow
    /\ player = NoPlayer

SetOptimalStartingRoster ==
    /\ starting_roster' = set_optimal_starting_roster(player_list, starting_roster)
    /\ last_call' = "optimal"
    /\ UNCHANGED <<player_list, query, row, player>>

SetRandomStartingRoster ==
    /\ starting_roster' = set_random_starting_roster(player_list, starting_roster)
    /\ last_call' = "random"
    /\ UNCHANGED <<player_list, query, row, player>>

Next == SetOptimalStartingRoster \/ SetRandomStartingRoster

Spec == Init /\ [][Next]_vars

----------------------------------------------------------------------------
(* The registry lookup on a team *)

\* every filling of the two position cells of a row
AllEligibilities ==
    {Single(q) : q \in Positions}
    \cup {e \in ForwardPositions \X ForwardPositions : e[1] # e[2]}

\* The data sheets of the lookups: up to MaxPlayers rows of any eligibility
\* in any order. The lookup reads no prediction; they are all 0 here.
RegistrySheets ==
    {[k \in 1..Len(e) |-> [position |-> e[k], pts |-> 0]] :
        e \in SeqsUpTo(AllEligibilities, MaxPlayers)}

InitRegistry ==
    /\ player_list \in {create_team(rows) : rows \in RegistrySheets}
    /\ starting_roster = EmptyRoster
    /\ last_call = "none"
    /\ query = NoQuery
    /\ row = NoRow
    /\ player = NoPlayer

\* testteam.get_players_by_position(position)
GetPlayersByPosition ==
    /\ \E position \in Positions :
          query' = [position |-> position,
                    result |-> get_players_by_position(player_list, position)]
    /\ UNCHANGED <<player_list, starting_roster, last_call, row, player>>

NextRegistry == GetPlayersByPosition

SpecRegistry == InitRegistry /\ [][NextRegistry]_vars

----------------------------------------------------------------------------
(* Player(d): Player.__init__ and Player.calculate_player_stats            *)

\* round(num / den, 2) in hundredths, num already counted in hundredths.
\* The float nearest to a value that is not halfway between two hundredths
\* rounds to the nearer one. For a value halfway between two hundredths the
\* result rests on the binary representation error of the operands, which
\* is not modelled: either neighbour is an outcome.
RoundedQuotients(num, den) ==
    LET q == num \div den
        r == num % den
    IN IF 2 * r < den THEN {q}
       ELSE IF 2 * r > den THEN {q + 1}
       ELSE {q, q + 1}

\* Player.predict_player_next_points:
\* round(((total ppg + last_week ppg) / 2) * predicted games, 2)
predict_player_next_points(total_ppg, last_week_ppg, games_this_week) ==
    RoundedQuotients((total_ppg + last_week_ppg) * games_this_week, 2)

\* a division by a games count of 0 (the cells of a row are Python numbers)
ZeroDivisionError == [status |-> "ZeroDivisionError"]

\* the outcomes of Player(d): the exception of the first division by zero,
\* or the stats dictionary filled in
calculate_player_stats(d) ==
    IF d.games_7 = 0 THEN {ZeroDivisionError}
    ELSE IF d.games_total = 0 THEN {ZeroDivisionError}
    ELSE UNION UNION UNION
      {{{{IF d.games_this_week = 0 THEN ZeroDivisionError
          ELSE [status |-> "ok",
                stats |->
                  [last_week |-> [pts |-> 100 * d.points_7,
                                  games |-> d.games_7, ppg |-> lw],
                   total |-> [pts |-> 100 * d.points_total,
                              games |-> d.games_total, ppg |-> tot],
                   predicted |-> [pts |-> pts, games |-> d.games_this_week,
                                  ppg |-> ppg]]] :
            ppg \in IF d.games_this_week = 0 THEN {0}
                    ELSE RoundedQuotients(pts, d.games_this_week)} :
           pts \in predict_player_next_points(tot, lw, d.games_this_week)} :
          tot \in RoundedQuotients(100 * d.points_total, d.games_total)} :
         lw \in RoundedQuotients(100 * d.points_7, d.games_7)}

\* the rows of the data sheet: the totals include last week
DataRows ==
    {d \in [games_7 : 0..MaxGames, points_7 : 0..MaxPoints,
            games_total : 0..MaxGames, points_total : 0..MaxPoints,
            games_this_week : 0..MaxGames] :
        d.games_7 <= d.games_total /\ d.points_7 <= d.points_total}

InitPlayer ==
    /\ player_list = <<>>
    /\ starting_roster = EmptyRoster
    /\ last_call = "none"
    /\ query = NoQuery
    /\ row = NoRow
    /\ player = NoPlayer

\* Player(d)
ConstructPlayer ==
    /\ \E d \in DataRows :
          /\ row' = d
          /\ player' \in calculate_player_stats(d)
    /\ UNCHANGED <<player_list, starting_roster, last_call, query>>

NextPlayer == ConstructPlayer

SpecPlayer == InitPlayer /\ [][NextPlayer]_vars

----------------------------------------------------------------------------
(* Vocabulary of the properties, stated on positions in player_list and    *)
(* independent of the operators above.                                     *)

Eligible(p, position) == position \in Range(p.position)

\* the indices in player_list of the players eligible for a position
PoolIndices(position) ==
    {i \in 1..Len(player_list) : Eligible(player_list[i], position)}

\* the pairs i < j of a position's pool
IndexPairs(position) ==
    {pr \in PoolIndices(position) \X PoolIndices(position) : pr[1] < pr[2]}

\* a pair of R, a pair of L, a pair of C with no repeated player name
ValidTriples ==
    {t \in [R : IndexPairs("R"), L : IndexPairs("L"), C : IndexPairs("C")] :
        Cardinality({player_list[i].name :
                        i \in {t.R[1], t.R[2], t.L[1], t.L[2], t.C[1], t.C[2]}})
            = 3 * PairSize}

TripleKey(t) == <<t.R[1], t.R[2], t.L[1], t.L[2], t.C[1], t.C[2]>>

\* lexicographic order of the keys: R pair first, then L pair, then C pair
LexLess(a, b) ==
    \E k \in 1..Len(a) :
        /\ a[k] < b[k]
        /\ \A m \in 1..(k - 1) : a[m] = b[m]

EnumeratedBefore(t, u) == LexLess(TripleKey(t), TripleKey(u))

TripleSum(t) ==
    player_list[t.R[1]].pts + player_list[t.R[2]].pts
    + player_list[t.L[1]].pts + player_list[t.L[2]].pts
    + player_list[t.C[1]].pts + player_list[t.C[2]].pts

PlayersAt(pr) == <<player_list[pr[1]], player_list[pr[2]]>>

\* the forward slots hold exactly the triple t
ForwardsAre(t) ==
    /\ starting_roster.R = PlayersAt(t.R)
    /\ starting_roster.L = PlayersAt(t.L)
    /\ starting_roster.C = PlayersAt(t.C)

ForwardsEmpty ==
    /\ starting_roster.R = <<>>
    /\ starting_roster.L = <<>>
    /\ starting_roster.C = <<>>

ForwardNames ==
    LET fwd == starting_roster.C \o starting_roster.L \o starting_roster.R
    IN [k \in 1..Len(fwd) |-> fwd[k].name]

RECURSIVE TotalPts(_)
TotalPts(players) ==
    IF players = <<>> THEN 0 ELSE Head(players).pts + TotalPts(Tail(players))

ForwardScore(roster) == TotalPts(roster.C) + TotalPts(roster.L) + TotalPts(roster.R)

----------------------------------------------------------------------------
\* C1: after set_optimal_starting_roster, and after any sequence of
\* set_optimal_starting_roster and set_random_starting_roster calls, no
\* player name appears twice among the players in the C, L and R slots.
C1_NoNameTwiceInForwards ==
    \A i, j \in 1..Len(ForwardNames) :
        i # j => ForwardNames[i] # ForwardNames[j]

\* the optimal search has committed six forwards from pools that share a
\* dual-eligible player, who is in the lineup
C1_Witness ==
    /\ last_call = "optimal"
    /\ Len(ForwardNames) = 3 * PairSize
    /\ \E i \in 1..Len(player_list) :
          /\ Cardinality({q \in ForwardPositions : Eligible(player_list[i], q)}) = 2
          /\ player_list[i].name \in Range(ForwardNames)

----------------------------------------------------------------------------
\* C2: whenever a triple with no repeated name exists,
\* set_optimal_starting_roster commits the valid triple of the greatest
\* predicted sum, the first enumerated among those tied for it.
C2_OptimalCommitsGreatestValidTriple ==
    (last_call = "optimal" /\ ValidTriples # {}) =>
        \E t \in ValidTriples :
            /\ ForwardsAre(t)
            /\ \A u \in ValidTriples :
                  \/ TripleSum(u) < TripleSum(t)
                  \/ TripleSum(u) = TripleSum(t) /\ ~EnumeratedBefore(u, t)

----------------------------------------------------------------------------
\* C3: for the same player list, the total predicted score of the forwards
\* committed by set_optimal_starting_roster is greater than or equal to
\* that of the forwards committed by set_random_starting_roster: a call of
\* one right after the other, on the same team, never shows the random
\* lineup ahead.
C3_OptimalScoreAtLeastRandom ==
    [][/\ (last_call = "random" /\ last_call' = "optimal") =>
             ForwardScore(starting_roster') >= ForwardScore(starting_roster)
       /\ (last_call = "optimal" /\ last_call' = "random") =>
             ForwardScore(starting_roster') <= ForwardScore(starting_roster)]_vars

\* the optimal search has committed a lineup that scores more than a valid
\* triple enumerated before it (the one the random search stops at)
C3_Witness ==
    /\ last_call = "optimal"
    /\ \E t, u \in ValidTriples :
          /\ ForwardsAre(t)
          /\ EnumeratedBefore(u, t)
          /\ \A w \in ValidTriples : ~EnumeratedBefore(w, u)
          /\ TripleSum(u) < TripleSum(t)

----------------------------------------------------------------------------
(* Defense and Goalie slots, stated on the pools *)

\* the eligible pool in ingestion order
PoolOf(position) ==
    LET Keep(p) == Eligible(p, position)
    IN SelectSeq(player_list, Keep)

\* the place of pool[i] once the pool is ordered by predicted points
\* descending, equal predictions keeping their ingestion order
RankIn(pool, i) ==
    1 + Cardinality({j \in 1..Len(pool) :
                        \/ pool[j].pts > pool[i].pts
                        \/ pool[j].pts = pool[i].pts /\ j < i})

\* slot is the first n players of the pool ordered that way
IsSortedTop(slot, pool, n) ==
    /\ Len(slot) = Min(n, Len(pool))
    /\ \A i \in 1..Len(pool) :
          RankIn(pool, i) <= n => slot[RankIn(pool, i)] = pool[i]

\* slot is the first n players of the pool in ingestion order
IsIngestionTop(slot, pool, n) ==
    /\ Len(slot) = Min(n, Len(pool))
    /\ \A i \in 1..Len(slot) : slot[i] = pool[i]

\* C4 as claimed: in both modes the Defense slot is the first 4 and the
\* Goalie slot the first 2 players of the eligible pool sorted by predicted
\* points descending, equal predictions in ingestion order.
C4_BothModesTakeSortedTop ==
    last_call \in {"optimal", "random"} =>
        /\ IsSortedTop(starting_roster.D, PoolOf("D"), DefenseSlots)
        /\ IsSortedTop(starting_roster.G, PoolOf("G"), GoalieSlots)

\* C4 amended: set_optimal_starting_roster commits the first 4 (Defense)
\* and first 2 (Goalie) players of the eligible pool sorted by predicted
\* points descending, equal predictions in ingestion order;
\* set_random_starting_roster commits the first 4 and first 2 players of
\* the eligible pool in ingestion order, unsorted.
C4_OptimalSortedRandomIngestion ==
    /\ last_call = "optimal" =>
          /\ IsSortedTop(starting_roster.D, PoolOf("D"), DefenseSlots)
          /\ IsSortedTop(starting_roster.G, PoolOf("G"), GoalieSlots)
    /\ last_call = "random" =>
          /\ IsIngestionTop(starting_roster.D, PoolOf("D"), DefenseSlots)
          /\ IsIngestionTop(starting_roster.G, PoolOf("G"), GoalieSlots)

\* the optimal mode has filled the Defense slot from a pool of more than 4
\* players in which two players of equal prediction stand behind a lower
\* one taken out by the sort
C4_Witness ==
    /\ last_call = "optimal"
    /\ Len(PoolOf("D")) > DefenseSlots
    /\ Len(starting_roster.D) = DefenseSlots
    /\ starting_roster.D # Slice(PoolOf("D"), DefenseSlots)
    /\ \E i, j \in 1..Len(starting_roster.D) :
          i < j /\ starting_roster.D[i].pts = starting_roster.D[j].pts

----------------------------------------------------------------------------
\* C5 as claimed: when a forward pool has fewer than 2 eligible players,
\* set_optimal_starting_roster leaves that position's slot empty and still
\* selects 2 players for every forward position whose pool holds at least 2.
C5_ShortPoolOthersStillSelected ==
    (last_call = "optimal"
     /\ \E q \in ForwardPositions : Len(PoolOf(q)) < PairSize) =>
        \A q \in ForwardPositions :
            IF Len(PoolOf(q)) < PairSize
            THEN starting_roster[q] = <<>>
            ELSE Len(starting_roster[q]) = PairSize

\* C5 amended: when a forward pool has fewer than 2 eligible players,
\* set_optimal_starting_roster does not raise and leaves all three forward
\* slots (C, L and R) empty, whatever the other forward pools hold; the
\* Defense and Goalie slots are filled as usual.
C5_ShortPoolLeavesAllForwardsEmpty ==
    (last_call = "optimal"
     /\ \E q \in ForwardPositions : Len(PoolOf(q)) < PairSize) =>
        /\ ForwardsEmpty
        /\ IsSortedTop(starting_roster.D, PoolOf("D"), DefenseSlots)
        /\ IsSortedTop(starting_roster.G, PoolOf("G"), GoalieSlots)

\* the optimal search has run on a team with no centre and two or more
\* left wings and right wings of positive predicted points
C5_Witness ==
    /\ last_call = "optimal"
    /\ Len(PoolOf("C")) = 0
    /\ Len(PoolOf("L")) >= PairSize
    /\ Len(PoolOf("R")) >= PairSize
    /\ \A i \in PoolIndices("L") \cup PoolIndices("R") : player_list[i].pts > 0

----------------------------------------------------------------------------
\* C6: set_random_starting_roster commits the first triple with no repeated
\* name in the enumeration order of the optimal mode (R pairs outer, L
\* pairs middle, C pairs inner, each in pool order) and stops; when no
\* valid triple exists the C, L and R slots are empty.
C6_RandomCommitsFirstValidTriple ==
    last_call = "random" =>
        IF ValidTriples = {}
        THEN ForwardsEmpty
        ELSE \E t \in ValidTriples :
                /\ ForwardsAre(t)
                /\ \A u \in ValidTriples : ~EnumeratedBefore(u, t)

\* the random search has committed a triple after passing over an earlier
\* triple that repeats a name, with later valid triples left untried
C6_Witness ==
    /\ last_call = "random"
    /\ \E t, u \in ValidTriples :
          /\ ForwardsAre(t)
          /\ EnumeratedBefore(t, u)
          /\ \E x \in [R : IndexPairs("R"), L : IndexPairs("L"),
                       C : IndexPairs("C")] :
                x \notin ValidTriples /\ EnumeratedBefore(x, t)

----------------------------------------------------------------------------
\* C7: the roster starts with all five slots empty and every call fully
\* overwrites it: after any sequence of calls the roster is what the last
\* call alone produces from the initial empty roster.
C7_RosterIsLastCallFromEmpty ==
    /\ last_call = "none" => starting_roster = EmptyRoster
    /\ last_call = "optimal" =>
          starting_roster = set_optimal_starting_roster(player_list, EmptyRoster)
    /\ last_call = "random" =>
          starting_roster = set_random_starting_roster(player_list, EmptyRoster)

\* the random call has returned with six forwards although a valid triple
\* of greater predicted sum exists: the lineup an optimal call commits on
\* this team is another one, and none of it is left in the roster
C7_Witness ==
    /\ last_call = "random"
    /\ \E t, u \in ValidTriples :
          /\ ForwardsAre(t)
          /\ TripleSum(u) > TripleSum(t)
          /\ {t.R[1], t.R[2], t.L[1], t.L[2], t.C[1], t.C[2]}
                # {u.R[1], u.R[2], u.L[1], u.L[2], u.C[1], u.C[2]}

----------------------------------------------------------------------------
(* Player statistics *)

Constructed == player.status # "none"

\* a window's points per game with a games count of zero counted as 0
PpgOrZero(points, games) ==
    IF games = 0 THEN {0} ELSE RoundedQuotients(100 * points, games)

\* C8: constructing a player never raises on a zero games count, and the
\* points-per-game of any window whose games count is zero is exactly 0.
C8_ZeroGamesGivesZeroPpg ==
    Constructed =>
        /\ player.status = "ok"
        /\ row.games_7 = 0 => player.stats.last_week.ppg = 0
        /\ row.games_total = 0 => player.stats.total.ppg = 0
        /\ row.games_this_week = 0 => player.stats.predicted.ppg = 0

\* C9: the predicted points are the mean of the windows' rounded
\* points-per-game values times the scheduled games, rounded to 2 decimals,
\* a window with zero games entering the mean as 0. The source keeps two
\* windows (last week and overall); the claim is stated over them.
C9_PredictionIsMeanWithZeroWindows ==
    Constructed =>
        /\ player.status = "ok"
        /\ \E lw \in PpgOrZero(row.points_7, row.games_7),
              tot \in PpgOrZero(row.points_total, row.games_total) :
              player.stats.predicted.pts
                  \in RoundedQuotients((lw + tot) * row.games_this_week, 2)

----------------------------------------------------------------------------
(* Registry lookup *)

\* the k-th index, in increasing order, of a position's pool
KthPoolIndex(position, k) ==
    CHOOSE i \in PoolIndices(position) :
        Cardinality({j \in PoolIndices(position) : j <= i}) = k

\* C10: get_players_by_position(p) returns exactly the players of
\* player_list whose eligible positions contain p, in ingestion order, and
\* leaves player_list as it was; a player eligible for two forward
\* positions is in the result for each of the two.
C10_LookupReturnsPoolInOrder ==
    [][/\ player_list' = player_list
       /\ Len(query'.result) = Cardinality(PoolIndices(query'.position))
       /\ \A k \in 1..Len(query'.result) :
             query'.result[k] = player_list[KthPoolIndex(query'.position, k)]
       /\ \A i \in 1..Len(player_list) :
             \A q \in ForwardPositions :
                 (Eligible(player_list[i], q) /\ query'.position = q) =>
                     player_list[i] \in Range(query'.result)]_vars

\* the lookup of a forward position has returned a player eligible for two
\* forward positions, behind and ahead of other players of the pool, and
\* has left out players of the team
C10_Witness ==
    /\ query.position \in ForwardPositions
    /\ Len(query.result) < Len(player_list)
    /\ Len(query.result) >= 2
    /\ \E k \in 1..Len(query.result) :
          /\ query.result[k].position[2] = query.position
          /\ Cardinality({q \in ForwardPositions :
                             Eligible(query.result[k], q)}) = 2

----------------------------------------------------------------------------
(* Shape of the forward slots *)

\* a forward slot holds exactly two players of the team, each eligible for
\* the slot's position
SlotIsFullPair(q) ==
    /\ Len(starting_roster[q]) = PairSize
    /\ \A k \in 1..Len(starting_roster[q]) :
          /\ starting_roster[q][k] \in Range(player_list)
          /\ Eligible(starting_roster[q][k], q)

\* C11: in every state reachable by any sequence of
\* set_optimal_starting_roster and set_random_starting_roster calls the
\* forward slots are all-or-nothing: C, L and R are all empty, or each of
\* them holds exactly 2 players, each eligible for the position of the slot
\* holding them; never some forward slots filled and others empty.
C11_ForwardSlotsAllOrNothing ==
    \/ ForwardsEmpty
    \/ \A q \in ForwardPositions : SlotIsFullPair(q)

\* the random call has filled the three forward slots, one of them with a
\* player eligible for two forward positions, on a team on which the
\* optimal call leaves all three empty (no valid triple has a positive sum)
C11_Witness ==
    /\ last_call = "random"
    /\ \A q \in ForwardPositions : SlotIsFullPair(q)
    /\ \E q \in ForwardPositions :
          \E k \in 1..Len(starting_roster[q]) :
              starting_roster[q][k].position[2] \in ForwardPositions
    /\ \A t \in ValidTriples : TripleSum(t) = 0

====
